---- MODULE Spec2Model ----
(***************************************************************************)
(* A model of theanet/neuralnet.py: the NeuralNet class.                   *)
(*                                                                         *)
(* The state is the fields of one NeuralNet object (the network A), the    *)
(* arguments its constructor was given, and the value the last method call *)
(* returned to the caller (or the exception it raised).  A second network  *)
(* B, built from A.get_init_params(), is held as the value returned by the *)
(* constructor call that made it.                                          *)
(*                                                                         *)
(* Python indices are kept 0-based through Idx.  Exceptions are named by   *)
(* the taxonomy of the specification; the Python exception raised is given *)
(* next to each name.  The learning rate is an exact rational: the code    *)
(* divides Python numbers with true division (the file is Python 3 only:   *)
(* it holds non-ASCII string literals without an encoding declaration).    *)
(***************************************************************************)
EXTENDS Integers, Sequences, FiniteSets, TLC

VARIABLES
    pc,             \* position of the constructor: "new", "assemble", "ready", "failed"
    err,            \* the exception the constructor raised, NoError if none
    layers,         \* self.layers: the LayerSpec type-tags, in order
    allwts,         \* self.allwts: None for a fresh network
    prms0,          \* the training_params mapping as passed to the constructor
    tr_prms,        \* self.tr_prms (the same dict object, mutated in place)
    tr_layers,      \* self.tr_layers
    te_layers,      \* self.te_layers
    num_layers,     \* self.num_layers
    aux_inpt_tr,    \* self.aux_inpt_tr, NoAttr while the attribute does not exist
    aux_inpt_te,    \* self.aux_inpt_te, NoAttr while the attribute does not exist
    cur_learn_rate, \* self.cur_learn_rate (value of the shared scalar)
    incs,           \* number of inc_epoch_set_rate calls made so far
    ret             \* the last method call and what it returned or raised

vars == <<pc, err, layers, allwts, prms0, tr_prms, tr_layers, te_layers,
          num_layers, aux_inpt_tr, aux_inpt_te, cur_learn_rate, incs, ret>>

(***************************************************************************)
(* Bounds of the model.                                                    *)
(***************************************************************************)
MaxLayers == 3      \* longest LayerSpec sequence given to the constructor
MaxDeep == 4        \* longest LayerSpec sequence of the shape runs
MaxEpoch == 3       \* CUR_EPOCH is not advanced beyond this
MaxHalf == 2        \* largest EPOCHS_TO_HALF_RATE
MaxInitEpoch == 1   \* largest CUR_EPOCH supplied to the constructor
WtMod == 2          \* weight values are drawn from 0 .. WtMod - 1

(***************************************************************************)
(* Exceptions.                                                             *)
(***************************************************************************)
NoError == "NoError"
ConfigurationError == "ConfigurationError"                  \* AssertionError, line 82
UnsupportedLayerError == "UnsupportedLayerError"            \* NotImplementedError, line 175
MultipleAuxiliaryInputError == "MultipleAuxiliaryInputError" \* AssertionError, line 95
MissingAuxiliaryDataError == "MissingAuxiliaryDataError"    \* AssertionError, lines 201, 221
AttributeError == "AttributeError"                          \* getattr, line 113
IndexError == "IndexError"                                  \* allwts[num_layers], line 109

(***************************************************************************)
(* Type-tags.                                                              *)
(***************************************************************************)
InputTags == {"InputLayer", "ElasticLayer"}
ShapeTags == {"ConvLayer", "PoolLayer", "MeanLayer"}
FlatTags == {"AuxConcatLayer", "HiddenLayer", "SoftmaxLayer", "SoftAuxLayer", "SVMLayer"}
AuxTags == {"AuxConcatLayer", "SoftAuxLayer"}
\* The names the layer module defines: those imported at lines 6-9, and
\* SVMLayer, which line 145 wires and the specification lists as supported.
ModuleNames == InputTags \cup ShapeTags \cup FlatTags
                 \cup {"DropOutLayer", "CenteredOutLayer"}
\* A tag that names nothing in the layer module.
Tags == ModuleNames \cup {"BogusLayer"}

(***************************************************************************)
(* Python values.                                                          *)
(***************************************************************************)
None == [isNone |-> TRUE, val |-> <<>>]
Some(v) == [isNone |-> FALSE, val |-> v]
\* Truth value of an optional sequence: None and the empty sequence are false.
Truthy(o) == ~o.isNone /\ Len(o.val) > 0
\* s[i] with Python's 0-based index; a negative index counts from the end.
Idx(s, i) == IF i >= 0 THEN s[i + 1] ELSE s[Len(s) + i + 1]
\* The attribute does not exist (hasattr is false).
NoAttr == [mode |-> "none", pos |-> -1]
NoSrc == -1

(***************************************************************************)
(* Exact rationals <<numerator, denominator>>, normalised, denominator > 0 *)
(***************************************************************************)
RECURSIVE Gcd(_, _)
Gcd(a, b) == IF b = 0 THEN a ELSE Gcd(b, a % b)
Abs(a) == IF a < 0 THEN -a ELSE a
Rat(n, d) ==
    LET g == Gcd(Abs(n), Abs(d))
        s == IF d < 0 THEN -1 ELSE 1
    IN  <<s * (n \div g), s * (d \div g)>>
FromInt(i) == <<i, 1>>
RatAdd(a, b) == Rat(a[1] * b[2] + b[1] * a[2], a[2] * b[2])
RatDiv(a, b) == Rat(a[1] * b[2], a[2] * b[1])
RatLeq(a, b) == a[1] * b[2] <= b[1] * a[2]
Zero == FromInt(0)
(***************************************************************************)
(* The layer module (theanet/layer.py), as far as the network uses it.     *)
(* A train instance is a record: its class (type), its place in the chain  *)
(* (pos), its weights (wts: <<w, b>>, or <<>> for a parameter-free layer), *)
(* its class centers (centers: <<c>> for CenteredOutLayer, else <<>>) and  *)
(* the place of the layer whose num_maps and out_sz it was given           *)
(* (shape_src, NoSrc when it was given none).                              *)
(***************************************************************************)
WeightTags == FlatTags \cup {"ConvLayer", "CenteredOutLayer"}
NoGen == [isNone |-> TRUE, seed |-> 0]
RandomState(seed) == [isNone |-> FALSE, seed |-> seed]
\* Weights a layer draws from the generator: a function of the seed and of
\* the layer's place, so that a fixed SEED gives the same weights again.
RandWts(rand_gen, pos) == <<(rand_gen.seed + pos) % WtMod, 0>>
RandCenters(rand_gen, pos) == <<(rand_gen.seed + pos + 1) % WtMod>>
\* A layer uses the weights it is given verbatim, and draws them otherwise.
NewLayer(type, pos, wts, centers, rand_gen, shape_src) ==
    [type      |-> type,
     mode      |-> "tr",
     pos       |-> pos,
     wts       |-> IF type \notin WeightTags THEN <<>>
                   ELSE IF ~wts.isNone THEN wts.val
                   ELSE RandWts(rand_gen, pos),
     centers   |-> IF type # "CenteredOutLayer" THEN <<>>
                   ELSE IF ~centers.isNone THEN centers.val
                   ELSE RandCenters(rand_gen, pos),
     shape_src |-> shape_src]
\* The test-mode twin of a train instance: same class, same place; it reads
\* the train instance's weights and holds none of its own.
TestVersion(lyr) == [type |-> lyr.type, mode |-> "te", pos |-> lyr.pos]
\* The auxiliary input tensor an instance owns.
AuxInpt(lyr) == [mode |-> lyr.mode, pos |-> lyr.pos]
\* The weight group of a layer.  CenteredOutLayer's group keeps its hidden
\* weights first and its centers at index 3.
Unused == 0
get_wts(lyr) ==
    IF lyr.type = "CenteredOutLayer"
    THEN lyr.wts \o <<Unused>> \o lyr.centers
    ELSE lyr.wts
\* One run of the update graph: every weight tensor is changed in place.
Bump(w) == [i \in 1..Len(w) |-> (w[i] + 1) % WtMod]
Updated(lyr) == [lyr EXCEPT !.wts = Bump(@), !.centers = Bump(@)]

(***************************************************************************)
(* NeuralNet.append_next_layer, as a function of the fields it reads.      *)
(* The result is the exception raised (NoError if none) and the two chains *)
(* as the call leaves them.                                                *)
(***************************************************************************)
\* A faulty check of the first LayerSpec: any class of the layer module passes.
FirstLayerAny(tag) == tag \in ModuleNames

FirstLayerOK(tag) == tag \in InputTags

InModule(tag) == tag \in ModuleNames

\* Lines 115-121: the place of use_tr_layer.
ShapeSource(trl, n) ==
    IF Idx(trl, n - 1).type = "DropOutLayer"
    THEN Idx(trl, n - 2).pos
    ELSE Idx(trl, n - 1).pos

\* Line 109.
LayerWts(awts, n) == IF Truthy(awts) THEN Some(Idx(awts.val, n)) ELSE None

\* A faulty split of CenteredOutLayer's group: the centers read at index 2.
CentersAtTwo(wts) == IF Truthy(wts) THEN Some(<<Idx(wts.val, 2)>>) ELSE None

\* Lines 162-166.
CentersOf(wts) == IF Truthy(wts) THEN Some(<<Idx(wts.val, 3)>>) ELSE None
HiddenOf(wts) == IF Truthy(wts) THEN Some(SubSeq(wts.val, 1, 2)) ELSE wts

Raise(e, trl, tel) == [err |-> e, tr |-> trl, te |-> tel]

\* A faulty append: the test-mode twin is not added.
AppendedTrainOnly(curr_layer, trl, tel) ==
    [err |-> NoError, tr |-> Append(trl, curr_layer), te |-> tel]

\* Lines 177-179.
Appended(curr_layer, trl, tel) ==
    [err |-> NoError,
     tr  |-> Append(trl, curr_layer),
     te  |-> Append(tel, TestVersion(curr_layer))]

AppendNext(lyrs, awts, rand_gen, trl, tel, n) ==
    LET layer_type == Idx(lyrs, n)
        wts == LayerWts(awts, n)
    IN  IF Truthy(awts) /\ n >= Len(awts.val)
        THEN Raise(IndexError, trl, tel)
        ELSE IF ~InModule(layer_type)
        THEN Raise(AttributeError, trl, tel)
        ELSE IF layer_type \in ShapeTags
        THEN Appended(NewLayer(layer_type, n,
                               IF layer_type = "ConvLayer" THEN wts ELSE None,
                               None, rand_gen, ShapeSource(trl, n)), trl, tel)
        ELSE IF layer_type = "DropOutLayer"
        THEN Appended(NewLayer(layer_type, n, None, None, rand_gen, NoSrc), trl, tel)
        ELSE IF layer_type \in FlatTags
        THEN Appended(NewLayer(layer_type, n, wts, None, rand_gen, NoSrc), trl, tel)
        ELSE IF layer_type = "CenteredOutLayer"
        THEN IF Truthy(wts) /\ Len(wts.val) < 4
             THEN Raise(IndexError, trl, tel)
             ELSE Appended(NewLayer(layer_type, n, HiddenOf(wts), CentersOf(wts),
                                    rand_gen, NoSrc), trl, tel)
        ELSE Raise(UnsupportedLayerError, trl, tel)

\* A faulty scan: no check that the handle exists already, so the last
\* auxiliary layer wins.
RECURSIVE ScanAuxLast(_, _, _, _, _)
ScanAuxLast(trl, tel, i, atr, ate) ==
    IF i >= Len(trl) \/ i >= Len(tel)
    THEN [err |-> NoError, tr |-> atr, te |-> ate]
    ELSE IF Idx(trl, i).type \in AuxTags
         THEN ScanAuxLast(trl, tel, i + 1, AuxInpt(Idx(trl, i)), AuxInpt(Idx(tel, i)))
         ELSE ScanAuxLast(trl, tel, i + 1, atr, ate)

(***************************************************************************)
(* Lines 93-97: the scan for auxiliary inputs, from layer pair i on.  The  *)
(* result is the exception raised and the two handles as the scan leaves   *)
(* them.                                                                   *)
(***************************************************************************)
RECURSIVE ScanAux(_, _, _, _, _)
ScanAux(trl, tel, i, atr, ate) ==
    IF i >= Len(trl) \/ i >= Len(tel)
    THEN [err |-> NoError, tr |-> atr, te |-> ate]
    ELSE IF Idx(trl, i).type \in AuxTags
         THEN IF atr # NoAttr
              THEN [err |-> MultipleAuxiliaryInputError, tr |-> atr, te |-> ate]
              ELSE ScanAux(trl, tel, i + 1, AuxInpt(Idx(trl, i)), AuxInpt(Idx(tel, i)))
         ELSE ScanAux(trl, tel, i + 1, atr, ate)

(***************************************************************************)
(* The learning-rate schedule, lines 255-259.                              *)
(***************************************************************************)
\* A faulty schedule: the epoch count is not divided by EPOCHS_TO_HALF_RATE.
RatePerEpoch(prms) ==
    RatDiv(prms.INIT_LEARNING_RATE,
           RatAdd(FromInt(1), FromInt(prms.CUR_EPOCH)))

Rate(prms) ==
    RatDiv(prms.INIT_LEARNING_RATE,
           RatAdd(FromInt(1),
                  RatDiv(FromInt(prms.CUR_EPOCH), FromInt(prms.EPOCHS_TO_HALF_RATE))))

\* A faulty default: CUR_EPOCH is set to 0 whether or not it was supplied.
WithEpochReset(prms) ==
    [SEED                |-> prms.SEED,
     BATCH_SZ            |-> prms.BATCH_SZ,
     INIT_LEARNING_RATE  |-> prms.INIT_LEARNING_RATE,
     EPOCHS_TO_HALF_RATE |-> prms.EPOCHS_TO_HALF_RATE,
     CUR_EPOCH           |-> 0]

\* Lines 100-101.
WithEpoch(prms) ==
    IF "CUR_EPOCH" \notin DOMAIN prms
    THEN [SEED                |-> prms.SEED,
          BATCH_SZ            |-> prms.BATCH_SZ,
          INIT_LEARNING_RATE  |-> prms.INIT_LEARNING_RATE,
          EPOCHS_TO_HALF_RATE |-> prms.EPOCHS_TO_HALF_RATE,
          CUR_EPOCH           |-> 0]
    ELSE prms

get_epoch == tr_prms.CUR_EPOCH

takes_aux == aux_inpt_te # NoAttr
(***************************************************************************)
(* Constructor arguments.                                                  *)
(***************************************************************************)
LayerSeqs(tags, n) == UNION {[1..k -> tags] : k \in 1..n}

\* The tags of the shape runs: the ones the shape rule tells apart, and one
\* of each kind of failure.
DeepTags == {"InputLayer", "DropOutLayer", "ConvLayer", "PoolLayer",
             "SoftAuxLayer", "BogusLayer"}

InitRates == {<<1, 1>>, <<1, 10>>, <<3, 100>>}

Params(seed, batch_sz, rate, half) ==
    [SEED |-> seed, BATCH_SZ |-> batch_sz,
     INIT_LEARNING_RATE |-> rate, EPOCHS_TO_HALF_RATE |-> half]

ParamsAt(seed, batch_sz, rate, half, epoch) ==
    [SEED |-> seed, BATCH_SZ |-> batch_sz,
     INIT_LEARNING_RATE |-> rate, EPOCHS_TO_HALF_RATE |-> half,
     CUR_EPOCH |-> epoch]

\* Training parameters of the assembly runs: a run resumed one epoch before
\* the last epoch the model advances to.
AsmParams == {ParamsAt(1, 2, <<1, 10>>, 2, MaxEpoch - 1)}

\* Training parameters of the schedule runs.
RateParams ==
    {Params(1, 2, r, h) : r \in InitRates, h \in 1..MaxHalf}
      \cup {ParamsAt(1, 2, r, h, e) :
              r \in InitRates, h \in 1..MaxHalf, e \in 0..MaxInitEpoch}

\* LayerSpec sequences of the schedule runs.
RateLayerSeqs ==
    {<<"InputLayer">>,
     <<"InputLayer", "ConvLayer", "SoftmaxLayer">>,
     <<"ElasticLayer", "HiddenLayer", "SoftAuxLayer">>,
     <<"InputLayer", "AuxConcatLayer", "SoftAuxLayer">>,
     <<"HiddenLayer", "SoftmaxLayer">>,
     <<"InputLayer", "InputLayer">>,
     <<"InputLayer", "BogusLayer">>}

(***************************************************************************)
(* The state before the constructor runs: its arguments are chosen, the    *)
(* object has no fields yet.                                               *)
(***************************************************************************)
NoCall == [call |-> "none", kind |-> "none"]

Start(lyrs, prms) ==
    /\ pc = "new"
    /\ err = NoError
    /\ layers = lyrs
    /\ allwts = None
    /\ prms0 = prms
    /\ tr_prms = prms
    /\ tr_layers = <<>>
    /\ te_layers = <<>>
    /\ num_layers = 0
    /\ aux_inpt_tr = NoAttr
    /\ aux_inpt_te = NoAttr
    /\ cur_learn_rate = Zero
    /\ incs = 0
    /\ ret = NoCall

Init == \E lyrs \in LayerSeqs(Tags, MaxLayers), prms \in AsmParams : Start(lyrs, prms)

InitDeep == \E lyrs \in LayerSeqs(DeepTags, MaxDeep), prms \in AsmParams : Start(lyrs, prms)

InitRate == \E lyrs \in RateLayerSeqs, prms \in RateParams : Start(lyrs, prms)

\* Lines 63-66.
RandGen(awts, prms) == IF awts.isNone THEN RandomState(prms.SEED) ELSE NoGen

(***************************************************************************)
(* NeuralNet.__init__, lines 63-88: the fields, the check of the first     *)
(* LayerSpec and the input layer pair.                                     *)
(***************************************************************************)
InputLayerStep ==
    /\ pc = "new"
    /\ IF FirstLayerOK(Idx(layers, 0))
       THEN LET lyr == NewLayer(Idx(layers, 0), 0, None, None,
                                RandGen(allwts, tr_prms), NoSrc)
            IN  /\ tr_layers' = Append(tr_layers, lyr)
                /\ te_layers' = Append(te_layers, TestVersion(lyr))
                /\ num_layers' = num_layers + 1
                /\ pc' = "assemble"
                /\ err' = err
       ELSE /\ pc' = "failed"
            /\ err' = ConfigurationError
            /\ UNCHANGED <<tr_layers, te_layers, num_layers>>
    /\ UNCHANGED <<layers, allwts, prms0, tr_prms, aux_inpt_tr, aux_inpt_te,
                   cur_learn_rate, incs, ret>>

(***************************************************************************)
(* One turn of the loop of lines 90-91: NeuralNet.append_next_layer.       *)
(***************************************************************************)
AppendNextLayer ==
    /\ pc = "assemble"
    /\ num_layers < Len(layers)
    /\ LET r == AppendNext(layers, allwts, RandGen(allwts, tr_prms),
                           tr_layers, te_layers, num_layers)
       IN  /\ tr_layers' = r.tr
           /\ te_layers' = r.te
           /\ IF r.err = NoError
              THEN /\ num_layers' = num_layers + 1
                   /\ UNCHANGED <<pc, err>>
              ELSE /\ pc' = "failed"
                   /\ err' = r.err
                   /\ UNCHANGED num_layers
    /\ UNCHANGED <<layers, allwts, prms0, tr_prms, aux_inpt_tr, aux_inpt_te,
                   cur_learn_rate, incs, ret>>

(***************************************************************************)
(* NeuralNet.__init__, lines 93-103: the auxiliary scan, the default of    *)
(* CUR_EPOCH and the first set_rate.                                       *)
(***************************************************************************)
FinishInit ==
    /\ pc = "assemble"
    /\ num_layers >= Len(layers)
    /\ LET r == ScanAux(tr_layers, te_layers, 0, aux_inpt_tr, aux_inpt_te)
       IN  /\ aux_inpt_tr' = r.tr
           /\ aux_inpt_te' = r.te
           /\ IF r.err = NoError
              THEN /\ tr_prms' = WithEpoch(tr_prms)
                   /\ cur_learn_rate' = Rate(tr_prms')
                   /\ pc' = "ready"
                   /\ err' = err
              ELSE /\ pc' = "failed"
                   /\ err' = r.err
                   /\ UNCHANGED <<tr_prms, cur_learn_rate>>
    /\ UNCHANGED <<layers, allwts, prms0, tr_layers, te_layers, num_layers,
                   incs, ret>>

(***************************************************************************)
(* NeuralNet.set_rate, lines 255-259.                                      *)
(***************************************************************************)
set_rate ==
    /\ pc = "ready"
    /\ cur_learn_rate' = Rate(tr_prms)
    /\ ret' = [call |-> "set_rate", kind |-> "none"]
    /\ UNCHANGED <<pc, err, layers, allwts, prms0, tr_prms, tr_layers, te_layers,
                   num_layers, aux_inpt_tr, aux_inpt_te, incs>>

\* A faulty inc_epoch_set_rate: the epoch advances, the scalar is left alone.
inc_epoch_only ==
    /\ pc = "ready"
    /\ tr_prms.CUR_EPOCH < MaxEpoch
    /\ tr_prms' = [tr_prms EXCEPT !.CUR_EPOCH = @ + 1]
    /\ incs' = incs + 1
    /\ ret' = [call |-> "inc_epoch_set_rate", kind |-> "none"]
    /\ UNCHANGED <<pc, err, layers, allwts, prms0, tr_layers, te_layers,
                   num_layers, aux_inpt_tr, aux_inpt_te, cur_learn_rate>>

(***************************************************************************)
(* NeuralNet.inc_epoch_set_rate, lines 261-263.                            *)
(***************************************************************************)
inc_epoch_set_rate ==
    /\ pc = "ready"
    /\ tr_prms.CUR_EPOCH < MaxEpoch
    /\ tr_prms' = [tr_prms EXCEPT !.CUR_EPOCH = @ + 1]
    /\ cur_learn_rate' = Rate(tr_prms')
    /\ incs' = incs + 1
    /\ ret' = [call |-> "inc_epoch_set_rate", kind |-> "none"]
    /\ UNCHANGED <<pc, err, layers, allwts, prms0, tr_layers, te_layers,
                   num_layers, aux_inpt_tr, aux_inpt_te>>
(***************************************************************************)
(* NeuralNet.get_trin_model, lines 181-209.  The function it returns binds *)
(* the symbolic variables named in givens and carries the update graph.    *)
(***************************************************************************)
Failed(call, aux_data, name) ==
    [call |-> call, kind |-> "error", name |-> name, aux_given |-> ~aux_data.isNone]

Compiled(call, aux_data, bound, outputs) ==
    [call |-> call, kind |-> "function", aux_given |-> ~aux_data.isNone,
     bound |-> bound, outputs |-> outputs]

TrinModel(aux_data) ==
    IF aux_inpt_tr # NoAttr
    THEN IF aux_data.isNone
         THEN Failed("get_trin_model", aux_data, MissingAuxiliaryDataError)
         ELSE Compiled("get_trin_model", aux_data, {"x", "y", "aux_inpt_tr"},
                       <<"cost", "features", "logprob">>)
    ELSE Compiled("get_trin_model", aux_data, {"x", "y"},
                  <<"cost", "features", "logprob">>)

get_trin_model(aux_data) ==
    /\ pc = "ready"
    /\ ret' = TrinModel(aux_data)
    /\ UNCHANGED <<pc, err, layers, allwts, prms0, tr_prms, tr_layers, te_layers,
                   num_layers, aux_inpt_tr, aux_inpt_te, cur_learn_rate, incs>>

(***************************************************************************)
(* NeuralNet.get_test_model, lines 211-231.                                *)
(***************************************************************************)
TestOutputs(preds_feats) ==
    IF preds_feats
    THEN <<"sym_err_rate", "oth_err_rate", "features", "predictions">>
    ELSE <<"sym_err_rate", "oth_err_rate">>

\* A faulty get_test_model: the auxiliary input is bound only when data is
\* given, and nothing is raised when it is not.
TestModelUnchecked(aux_data, preds_feats) ==
    IF aux_inpt_te # NoAttr /\ ~aux_data.isNone
    THEN Compiled("get_test_model", aux_data, {"test_x", "y", "aux_inpt_te"},
                  TestOutputs(preds_feats))
    ELSE Compiled("get_test_model", aux_data, {"test_x", "y"},
                  TestOutputs(preds_feats))

TestModel(aux_data, preds_feats) ==
    IF aux_inpt_te # NoAttr
    THEN IF aux_data.isNone
         THEN Failed("get_test_model", aux_data, MissingAuxiliaryDataError)
         ELSE Compiled("get_test_model", aux_data, {"test_x", "y", "aux_inpt_te"},
                       TestOutputs(preds_feats))
    ELSE Compiled("get_test_model", aux_data, {"test_x", "y"},
                  TestOutputs(preds_feats))

get_test_model(aux_data, preds_feats) ==
    /\ pc = "ready"
    /\ ret' = TestModel(aux_data, preds_feats)
    /\ UNCHANGED <<pc, err, layers, allwts, prms0, tr_prms, tr_layers, te_layers,
                   num_layers, aux_inpt_tr, aux_inpt_te, cur_learn_rate, incs>>

(***************************************************************************)
(* NeuralNet.get_data_test_model, lines 236-248.  It binds nothing: its    *)
(* inputs are the function's arguments.                                    *)
(***************************************************************************)
DataTestModel(go_nuts) ==
    [call |-> "get_data_test_model", kind |-> "function", aux_given |-> FALSE,
     bound |-> {},
     inputs |-> IF takes_aux THEN <<"test_x", "aux_inpt_te">> ELSE <<"test_x">>,
     outputs |-> <<"features", "predictions">>
                   \o (IF go_nuts
                       THEN [i \in 1..Len(te_layers) |-> "output"]
                       ELSE <<>>)]

get_data_test_model(go_nuts) ==
    /\ pc = "ready"
    /\ ret' = DataTestModel(go_nuts)
    /\ UNCHANGED <<pc, err, layers, allwts, prms0, tr_prms, tr_layers, te_layers,
                   num_layers, aux_inpt_tr, aux_inpt_te, cur_learn_rate, incs>>

(***************************************************************************)
(* A call of the compiled train-step function: the updates of lines        *)
(* 189-191 are applied to every train layer.                               *)
(***************************************************************************)
train_step ==
    /\ pc = "ready"
    /\ ret.call \in {"get_trin_model", "train_step"}
    /\ ret.kind \in {"function", "outputs"}
    /\ tr_layers' = [i \in 1..Len(tr_layers) |-> Updated(tr_layers[i])]
    /\ ret' = [call |-> "train_step", kind |-> "outputs"]
    /\ UNCHANGED <<pc, err, layers, allwts, prms0, tr_prms, te_layers,
                   num_layers, aux_inpt_tr, aux_inpt_te, cur_learn_rate, incs>>

(***************************************************************************)
(* NeuralNet.get_init_params, lines 250-253.  training_params is the       *)
(* network's own mapping, not a copy: the checkpoint names it.             *)
(***************************************************************************)
AllWts(trl) == [i \in 1..Len(trl) |-> get_wts(trl[i])]

InitParams ==
    [call |-> "get_init_params", kind |-> "params",
     layers |-> layers, training_params |-> "tr_prms", allwts |-> AllWts(tr_layers)]

get_init_params ==
    /\ pc = "ready"
    /\ ret' = InitParams
    /\ UNCHANGED <<pc, err, layers, allwts, prms0, tr_prms, tr_layers, te_layers,
                   num_layers, aux_inpt_tr, aux_inpt_te, cur_learn_rate, incs>>

(***************************************************************************)
(* NeuralNet.__init__ as a function of its arguments: the network it       *)
(* builds, or the exception it raises.                                     *)
(***************************************************************************)
RECURSIVE Assemble(_, _, _, _, _)
Assemble(lyrs, awts, rand_gen, trl, tel) ==
    IF Len(trl) >= Len(lyrs)
    THEN Raise(NoError, trl, tel)
    ELSE LET r == AppendNext(lyrs, awts, rand_gen, trl, tel, Len(trl))
         IN  IF r.err # NoError THEN r
             ELSE Assemble(lyrs, awts, rand_gen, r.tr, r.te)

Network(e, lyrs, trl, tel, atr, ate, rate) ==
    [call |-> "NeuralNet", kind |-> IF e = NoError THEN "net" ELSE "error",
     name |-> e, layers |-> lyrs, tr_layers |-> trl, te_layers |-> tel,
     num_layers |-> Len(trl), aux_inpt_tr |-> atr, aux_inpt_te |-> ate,
     cur_learn_rate |-> rate]

NeuralNet(lyrs, prms, awts) ==
    IF ~FirstLayerOK(Idx(lyrs, 0))
    THEN Network(ConfigurationError, lyrs, <<>>, <<>>, NoAttr, NoAttr, Zero)
    ELSE LET gen == RandGen(awts, prms)
             lyr == NewLayer(Idx(lyrs, 0), 0, None, None, gen, NoSrc)
             a   == Assemble(lyrs, awts, gen, <<lyr>>, <<TestVersion(lyr)>>)
             x   == ScanAux(a.tr, a.te, 0, NoAttr, NoAttr)
         IN  IF a.err # NoError
             THEN Network(a.err, lyrs, a.tr, a.te, NoAttr, NoAttr, Zero)
             ELSE IF x.err # NoError
             THEN Network(x.err, lyrs, a.tr, a.te, x.tr, x.te, Zero)
             ELSE Network(NoError, lyrs, a.tr, a.te, x.tr, x.te,
                          Rate(WithEpoch(prms)))

(***************************************************************************)
(* The caller restores a network from a checkpoint:                        *)
(* a NeuralNet built from net.get_init_params().  The new network shares *)
(* training_params mapping, which already holds CUR_EPOCH.                 *)
(***************************************************************************)
restore ==
    /\ pc = "ready"
    /\ ret' = NeuralNet(InitParams.layers, tr_prms, Some(InitParams.allwts))
    /\ UNCHANGED <<pc, err, layers, allwts, prms0, tr_prms, tr_layers, te_layers,
                   num_layers, aux_inpt_tr, aux_inpt_te, cur_learn_rate, incs>>

AuxData == {None, Some(<<"aux">>)}

Next ==
    \/ InputLayerStep
    \/ AppendNextLayer
    \/ FinishInit
    \/ set_rate
    \/ inc_epoch_set_rate
    \/ \E aux_data \in AuxData : get_trin_model(aux_data)
    \/ \E aux_data \in AuxData, preds_feats \in BOOLEAN :
          get_test_model(aux_data, preds_feats)
    \/ \E go_nuts \in BOOLEAN : get_data_test_model(go_nuts)
    \/ train_step
    \/ get_init_params
    \/ restore

Spec == Init /\ [][Next]_vars

SpecRate == InitRate /\ [][Next]_vars

SpecDeep == InitDeep /\ [][Next]_vars
(***************************************************************************)
(* Properties.                                                             *)
(***************************************************************************)
\* The tags of the wiring rules of append_next_layer.
SupportedTags ==
    {"ConvLayer", "PoolLayer", "MeanLayer", "DropOutLayer", "AuxConcatLayer",
     "HiddenLayer", "SoftmaxLayer", "SoftAuxLayer", "SVMLayer", "CenteredOutLayer"}

FirstIsInput(lyrs) == lyrs[1] \in {"InputLayer", "ElasticLayer"}

ValidSeq(lyrs) ==
    /\ FirstIsInput(lyrs)
    /\ \A i \in 2..Len(lyrs) : lyrs[i] \in SupportedTags

AuxCount(lyrs) ==
    Cardinality({i \in 1..Len(lyrs) : lyrs[i] \in {"AuxConcatLayer", "SoftAuxLayer"}})

Ended == pc \in {"ready", "failed"}

\* CUR_EPOCH as the constructor was given it, 0 when the key was absent.
InitEpoch == IF "CUR_EPOCH" \in DOMAIN prms0 THEN prms0.CUR_EPOCH ELSE 0

\* The rational r is exactly half the rational q.
IsHalf(r, q) == 2 * r[1] * q[2] = q[1] * r[2]

\* The rational r is exactly INIT_LEARNING_RATE / (1 + CUR_EPOCH / EPOCHS_TO_HALF_RATE).
IsScheduled(r, prms) ==
    r[1] * prms.INIT_LEARNING_RATE[2] * (prms.EPOCHS_TO_HALF_RATE + prms.CUR_EPOCH)
        = prms.INIT_LEARNING_RATE[1] * prms.EPOCHS_TO_HALF_RATE * r[2]

\* C1: a network constructed at epoch 0 has the rate INIT_LEARNING_RATE
\* exactly; after EPOCHS_TO_HALF_RATE calls of inc_epoch_set_rate from epoch
\* 0 the rate is INIT_LEARNING_RATE / 2 exactly; and no call of
\* inc_epoch_set_rate makes the rate greater than it was.
C1_Schedule ==
    /\ [](pc = "ready" /\ InitEpoch = 0 /\ incs = 0
            => cur_learn_rate = prms0.INIT_LEARNING_RATE)
    /\ [](pc = "ready" /\ InitEpoch = 0 /\ incs = prms0.EPOCHS_TO_HALF_RATE
            => IsHalf(cur_learn_rate, prms0.INIT_LEARNING_RATE))
    /\ [][pc = "ready" /\ incs' = incs + 1
            => RatLeq(cur_learn_rate', cur_learn_rate)]_vars

C1_Witness ==
    /\ pc = "ready"
    /\ InitEpoch = 0
    /\ prms0.EPOCHS_TO_HALF_RATE = 2
    /\ incs = 2
    /\ IsHalf(cur_learn_rate, prms0.INIT_LEARNING_RATE)
    /\ cur_learn_rate # prms0.INIT_LEARNING_RATE

\* C2: the train and test chains have the same length, num_layers, after
\* every step of the assembly; instance i of each chain is of the class that
\* LayerSpec i names; and for a valid LayerSpec sequence construction ends
\* with one pair per LayerSpec.
C2_ParallelChains ==
    /\ Len(tr_layers) = num_layers
    /\ Len(te_layers) = num_layers
    /\ num_layers <= Len(layers)
    /\ \A i \in 1..num_layers :
          /\ tr_layers[i].type = layers[i] /\ tr_layers[i].pos = i - 1
          /\ te_layers[i].type = layers[i] /\ te_layers[i].pos = i - 1
          /\ tr_layers[i].mode = "tr" /\ te_layers[i].mode = "te"
    /\ ValidSeq(layers) /\ Ended => num_layers = Len(layers)

C2_Witness ==
    /\ pc = "ready"
    /\ Len(layers) = 3
    /\ num_layers = 3
    /\ layers[2] = "ConvLayer"
    /\ layers[3] = "SoftmaxLayer"

\* C3: when the first LayerSpec is neither InputLayer nor ElasticLayer the
\* constructor fails with ConfigurationError and no train or test layer is
\* ever appended.
C3_FirstLayerChecked ==
    ~FirstIsInput(layers) /\ pc # "new"
        => /\ pc = "failed"
           /\ err = ConfigurationError
           /\ tr_layers = <<>>
           /\ te_layers = <<>>
           /\ num_layers = 0

C3_Witness ==
    /\ pc = "failed"
    /\ layers[1] \in {"HiddenLayer", "SoftmaxLayer"}
    /\ Len(layers) > 1
    /\ err = ConfigurationError

\* C4: of the otherwise valid LayerSpec sequences, one with two or more
\* auxiliary layers fails with MultipleAuxiliaryInputError; one with exactly
\* one is constructed and holds the auxiliary inputs of the train and test
\* instance at that layer's index; one with none is constructed and
\* takes_aux() is false.
C4_AuxiliaryInput ==
    ValidSeq(layers) /\ Ended
        => /\ AuxCount(layers) >= 2
                => pc = "failed" /\ err = MultipleAuxiliaryInputError
           /\ AuxCount(layers) = 1
                => /\ pc = "ready"
                   /\ takes_aux
                   /\ \E i \in 1..Len(layers) :
                         /\ layers[i] \in {"AuxConcatLayer", "SoftAuxLayer"}
                         /\ aux_inpt_tr = [mode |-> "tr", pos |-> i - 1]
                         /\ aux_inpt_tr = AuxInpt(tr_layers[i])
                         /\ aux_inpt_te = [mode |-> "te", pos |-> i - 1]
                         /\ aux_inpt_te = AuxInpt(te_layers[i])
           /\ AuxCount(layers) = 0
                => pc = "ready" /\ ~takes_aux /\ aux_inpt_tr = NoAttr

C4_Witness ==
    /\ pc = "ready"
    /\ AuxCount(layers) = 1
    /\ layers[2] = "AuxConcatLayer"
    /\ Len(layers) = 3
    /\ aux_inpt_te = [mode |-> "te", pos |-> 1]

\* C5: a LayerSpec at index >= 1 whose tag is not one of the wiring rules
\* makes construction fail with UnsupportedLayerError, whatever the tag.
C5_UnsupportedTag ==
    /\ FirstIsInput(layers)
    /\ \E i \in 2..Len(layers) : layers[i] \notin SupportedTags
    /\ Ended
    => pc = "failed" /\ err = UnsupportedLayerError

\* C6: on a network with an auxiliary input, get_trin_model and
\* get_test_model called without auxiliary data raise
\* MissingAuxiliaryDataError and return no function; on a network without
\* one they never raise it.
C6_MissingAuxData ==
    ret.call \in {"get_trin_model", "get_test_model"}
        => /\ takes_aux /\ ~ret.aux_given
                => ret.kind = "error" /\ ret.name = MissingAuxiliaryDataError
           /\ ~takes_aux => ret.kind = "function"

C6_Witness ==
    /\ takes_aux
    /\ ret.call = "get_test_model"
    /\ ret.kind = "error"
    /\ ~ret.aux_given

\* C7: a network built from get_init_params() of a constructed network is
\* constructed too, has the same LayerSpec sequence, one weight group per
\* layer, and at every index the weights (for CenteredOutLayer the hidden
\* weights and the centers) of the network the checkpoint was taken from.
C7_CheckpointRoundTrip ==
    ret.call = "NeuralNet"
        => /\ ret.kind = "net"
           /\ ret.layers = layers
           /\ Len(InitParams.allwts) = Len(layers)
           /\ Len(ret.tr_layers) = Len(tr_layers)
           /\ \A i \in 1..Len(tr_layers) :
                 /\ ret.tr_layers[i].type = tr_layers[i].type
                 /\ ret.tr_layers[i].wts = tr_layers[i].wts
                 /\ ret.tr_layers[i].centers = tr_layers[i].centers
                 /\ ret.te_layers[i].type = te_layers[i].type

C7_Witness ==
    /\ ret.call = "NeuralNet"
    /\ ret.kind = "net"
    /\ Len(layers) = 3
    /\ layers[2] = "ConvLayer"
    /\ layers[3] = "CenteredOutLayer"
    /\ tr_layers[3].centers # RandCenters(RandomState(tr_prms.SEED), 2)
    /\ ret.tr_layers[3].centers = tr_layers[3].centers

\* C8: once the network is constructed the scalar is the schedule's value at
\* the current CUR_EPOCH, whatever calls were made; and a call of set_rate
\* changes neither the scalar nor the training parameters.
C8_RateFollowsEpoch ==
    /\ [](pc = "ready" => IsScheduled(cur_learn_rate, tr_prms))
    /\ [][pc = "ready" /\ ret'.call = "set_rate"
            => cur_learn_rate' = cur_learn_rate /\ tr_prms' = tr_prms]_vars

C8_Witness ==
    /\ pc = "ready"
    /\ ret.call = "set_rate"
    /\ incs = 2
    /\ cur_learn_rate # prms0.INIT_LEARNING_RATE

\* C9: the constructor keeps a supplied CUR_EPOCH and sets 0 when the key is
\* absent; after k calls of inc_epoch_set_rate, interleaved with any other
\* calls, get_epoch() is the initial epoch plus k and the other training
\* parameters are as they were given.
C9_TrainingParamsFrame ==
    pc = "ready"
        => /\ get_epoch = InitEpoch + incs
           /\ \A k \in {"SEED", "BATCH_SZ", "INIT_LEARNING_RATE", "EPOCHS_TO_HALF_RATE"} :
                 tr_prms[k] = prms0[k]
           /\ DOMAIN tr_prms = DOMAIN prms0 \cup {"CUR_EPOCH"}

C9_Witness ==
    /\ pc = "ready"
    /\ "CUR_EPOCH" \in DOMAIN prms0
    /\ prms0.CUR_EPOCH = 1
    /\ incs = 2
    /\ get_epoch = 3
    /\ ret.call = "NeuralNet"

\* C10: in a network that assembled, the layer whose num_maps and out_sz a
\* ConvLayer, PoolLayer or MeanLayer at index i was given is layer i-1, or
\* layer i-2 when layer i-1 is a DropOutLayer, and is never a DropOutLayer.
C10_ShapeSource ==
    pc = "ready"
        => \A i \in 1..Len(tr_layers) :
              tr_layers[i].type \in {"ConvLayer", "PoolLayer", "MeanLayer"}
                 => /\ tr_layers[i].shape_src =
                          IF tr_layers[i - 1].type = "DropOutLayer"
                          THEN i - 3 ELSE i - 2
                    /\ tr_layers[tr_layers[i].shape_src + 1].type # "DropOutLayer"
====
